---- MODULE Spec2Model ----
(***************************************************************************)
(* librepo/package_downloader.c: lr_packagetarget_new, lr_download_packages *)
(* and lr_download_package, as a state machine.                            *)
(*                                                                         *)
(* A call of lr_download_packages is split at the points where a SIGINT    *)
(* can be delivered between two of its stages: entry (checks and handler   *)
(* installation), mirrorlist preparation, one step per element of the      *)
(* "Prepare targets" loop, the call of lr_download, and the cleanup block. *)
(* C strings that the code takes apart (relative_url, dest, local_path)    *)
(* are sequences of one-character strings; other strings are opaque.       *)
(***************************************************************************)
EXTENDS Integers, Sequences, FiniteSets, TLC

\* ------------------------------------------------------------------ bounds
\* Longest batch (GSList *targets) a caller builds.
MaxTargets == 2
\* Longest relative_url / dest explored by the destination-resolution runs.
MaxLen == 3
\* Longest list a caller hands to lr_download_packages a second time.
MaxReuse == 1

\* --------------------------------------------------------------- C strings
\* A NULL char pointer for the strings that are sequences of characters.
NULLSTR == <<"NULL">>
\* A NULL pointer for opaque strings, callbacks and GError.
NULL == "NULL"

SEP == "/"

\* Number of separators at the end of s.
RECURSIVE TrailingSeps(_)
TrailingSeps(s) ==
    IF s = <<>> \/ s[Len(s)] # SEP THEN 0
    ELSE 1 + TrailingSeps(SubSeq(s, 1, Len(s) - 1))

\* Number of separators at the start of s.
RECURSIVE LeadingSeps(_)
LeadingSeps(s) ==
    IF s = <<>> \/ s[1] # SEP THEN 0
    ELSE 1 + LeadingSeps(SubSeq(s, 2, Len(s)))

\* Index of the last separator of s, 0 when s has none.
RECURSIVE LastSep(_)
LastSep(s) ==
    IF s = <<>> THEN 0
    ELSE IF s[Len(s)] = SEP THEN Len(s)
    ELSE LastSep(SubSeq(s, 1, Len(s) - 1))

\* glib g_path_get_basename: "." for the empty string, "/" for a string of
\* separators only, else the last component with trailing separators dropped.
g_path_get_basename(file_name) ==
    IF file_name = <<>> THEN <<".">>
    ELSE LET last_nonslash == Len(file_name) - TrailingSeps(file_name)
             head == SubSeq(file_name, 1, last_nonslash)
         IN  IF last_nonslash = 0 THEN <<SEP>>
             ELSE SubSeq(head, LastSep(head) + 1, last_nonslash)

\* glib g_build_filename(first, second, NULL) (g_build_path with "/"): empty
\* elements are ignored; the leading separators of the first non-empty
\* element and the trailing separators of the last one are kept; exactly one
\* separator joins two elements; an element of separators only that is the
\* one non-empty element is returned as it is.
BuildPiece(e) == SubSeq(e, LeadingSeps(e) + 1, Len(e) - TrailingSeps(e))
BuildOne(e) == e
g_build_filename(first, second) ==
    IF first = <<>> THEN (IF second = <<>> THEN <<>> ELSE BuildOne(second))
    ELSE IF second = <<>> THEN BuildOne(first)
    ELSE LET lead  == SubSeq(first, 1, LeadingSeps(first))
             p1    == IF LeadingSeps(first) = Len(first) THEN <<>> ELSE BuildPiece(first)
             p2    == IF LeadingSeps(second) = Len(second) THEN <<>> ELSE BuildPiece(second)
             trail == SubSeq(second, Len(second) - TrailingSeps(second) + 1, Len(second))
             tail  == IF p2 = <<>>
                      THEN (IF Len(trail) > 0 THEN trail ELSE <<>>)
                      ELSE (IF p1 = <<>> THEN p2 ELSE <<SEP>> \o p2) \o trail
         IN  lead \o p1 \o tail

\* ------------------------------------------------------------ the requests
ALREADY_DOWNLOADED == "Already downloaded"

LR_CHECKSUM_UNKNOWN == "LR_CHECKSUM_UNKNOWN"

\* lr_packagetarget_new: the arguments are stored as given; lr_malloc0 leaves
\* local_path and err NULL.
lr_packagetarget_new(relative_url, dest, checksum_type, checksum, expectedsize, base_url, resume, progresscb, cbdata) ==
    [relative_url  |-> relative_url,
     dest          |-> dest,
     checksum_type |-> checksum_type,
     checksum      |-> checksum,
     expectedsize  |-> expectedsize,
     base_url      |-> base_url,
     resume        |-> resume,
     progresscb    |-> progresscb,
     cbdata        |-> cbdata,
     local_path    |-> NULLSTR,
     err           |-> NULL]

\* The requests a caller builds: no destination, a destination, no checksum,
\* an unknown checksum type, resume on and off. A batch is a run of
\* consecutive entries, taken cyclically.
Catalogue ==
    << lr_packagetarget_new(<<"p", "/", "f">>, NULLSTR, "LR_CHECKSUM_SHA256", "c1",
                           7, "b1", TRUE, "cb1", "ud1"),
      lr_packagetarget_new(<<"g">>, <<"d">>, LR_CHECKSUM_UNKNOWN, "c2",
                           0, NULL, FALSE, NULL, NULL),
      lr_packagetarget_new(<<"p", "/", "f">>, <<"d">>, "LR_CHECKSUM_MD5", NULL,
                           9, "b2", TRUE, "cb2", "ud2"),
      lr_packagetarget_new(<<"g">>, <<"o">>, "LR_CHECKSUM_SHA256", "c3",
                           0, NULL, FALSE, NULL, "ud3") >>

\* The whole relative_url, not its basename, put under the directory.
LocalPath_NoBasename(packagetarget, is_dir) ==
    IF packagetarget.dest # NULLSTR
    THEN IF is_dir
         THEN g_build_filename(packagetarget.dest, packagetarget.relative_url)
         ELSE packagetarget.dest
    ELSE g_path_get_basename(packagetarget.relative_url)

\* Lines 137-151: the destination filename of a request, given whether
\* g_file_test(dest, G_FILE_TEST_IS_DIR) holds.
LocalPath(packagetarget, is_dir) ==
    IF packagetarget.dest # NULLSTR
    THEN IF is_dir
         THEN g_build_filename(packagetarget.dest,
                               g_path_get_basename(packagetarget.relative_url))
         ELSE packagetarget.dest
    ELSE g_path_get_basename(packagetarget.relative_url)

\* The test of the checksum type left out.
SkipCheckWanted_AnyType(packagetarget, access_ok) ==
    /\ access_ok
    /\ packagetarget.checksum # NULL

\* Lines 159-161: the condition under which the file is opened and compared.
SkipCheckWanted(packagetarget, access_ok) ==
    /\ access_ok
    /\ packagetarget.checksum # NULL
    /\ packagetarget.checksum_type # LR_CHECKSUM_UNKNOWN

\* The test of the verifier's answer inverted.
AlreadyDownloaded_Inverted(packagetarget, access_ok, open_ok, cmp_ret, matches) ==
    /\ access_ok
    /\ packagetarget.checksum # NULL
    /\ packagetarget.checksum_type # LR_CHECKSUM_UNKNOWN
    /\ open_ok
    /\ cmp_ret /\ ~matches

\* The file of a request that is to be resumed never taken as complete.
AlreadyDownloaded_UnlessResume(packagetarget, access_ok, open_ok, cmp_ret, matches) ==
    /\ ~packagetarget.resume
    /\ access_ok
    /\ packagetarget.checksum # NULL
    /\ packagetarget.checksum_type # LR_CHECKSUM_UNKNOWN
    /\ open_ok
    /\ cmp_ret /\ matches

\* Lines 168-178: whether the request is skipped, given what open() and
\* lr_checksum_fd_cmp returned.
AlreadyDownloaded(packagetarget, access_ok, open_ok, cmp_ret, matches) ==
    /\ SkipCheckWanted(packagetarget, access_ok)
    /\ open_ok
    /\ cmp_ret /\ matches

\* Resume switched off for every target.
DownloadTargetFor_NoResume(packagetarget, userdata) ==
    [path         |-> packagetarget.relative_url,
     baseurl      |-> packagetarget.base_url,
     fd           |-> -1,
     fn           |-> packagetarget.local_path,
     checksumtype |-> packagetarget.checksum_type,
     checksum     |-> packagetarget.checksum,
     expectedsize |-> packagetarget.expectedsize,
     resume       |-> FALSE,
     progresscb   |-> packagetarget.progresscb,
     cbdata       |-> packagetarget.cbdata,
     userdata     |-> userdata,
     err          |-> NULL]

\* Lines 188-198: the download target made for the request at position
\* userdata of the list.
DownloadTargetFor(packagetarget, userdata) ==
    [path         |-> packagetarget.relative_url,
     baseurl      |-> packagetarget.base_url,
     fd           |-> -1,
     fn           |-> packagetarget.local_path,
     checksumtype |-> packagetarget.checksum_type,
     checksum     |-> packagetarget.checksum,
     expectedsize |-> packagetarget.expectedsize,
     resume       |-> packagetarget.resume,
     progresscb   |-> packagetarget.progresscb,
     cbdata       |-> packagetarget.cbdata,
     userdata     |-> userdata,
     err          |-> NULL]

\* g_slist_prepend in place of g_slist_append.
AddTarget_Prepend(list, downloadtarget) == <<downloadtarget>> \o list

\* Line 200: g_slist_append puts the new download target last.
AddTarget(list, downloadtarget) == Append(list, downloadtarget)

\* Every request of the list gets the error of a failed target.
RECURSIVE CopyStatuses_ToAll(_, _)
CopyStatuses_ToAll(dts, pts) ==
    IF dts = <<>> THEN pts
    ELSE CopyStatuses_ToAll(Tail(dts),
             IF Head(dts).err # NULL
             THEN [k \in DOMAIN pts |-> [pts[k] EXCEPT !.err = Head(dts).err]]
             ELSE pts)

\* The cleanup loop left out: no status reaches the requests.
CopyStatuses_Dropped(dts, pts) == pts

\* Lines 209-215: the statuses of the download targets copied to the
\* requests they point back to, in list order.
RECURSIVE CopyStatuses(_, _)
CopyStatuses(dts, pts) ==
    IF dts = <<>> THEN pts
    ELSE LET downloadtarget == Head(dts)
             k == downloadtarget.userdata
         IN  CopyStatuses(Tail(dts),
                 IF downloadtarget.err # NULL
                 THEN [pts EXCEPT ![k].err = downloadtarget.err]
                 ELSE pts)

\* ------------------------------------------------------------------- state
VARIABLES
    sigint,          \* the process's disposition of SIGINT
    lr_interrupt,    \* the process-wide flag lr_sigint_handler sets
    targets,         \* the caller's list of LrPackageTarget
    pc,              \* where the caller, or the running call, is
    handle,          \* the LrHandle of the running call
    failfast,        \* flags & LR_PACKAGEDOWNLOAD_FAILFAST
    elem,            \* position of the "Prepare targets" loop
    downloadtargets, \* the list built for lr_download
    old_sigact,      \* the disposition saved by sigaction
    ret,             \* the call's (last) return value
    err,             \* *err
    \* what a call did, kept for the properties; reset when a call starts
    entry_sigint,    \* the disposition of SIGINT when the call started
    installed,       \* the call installed lr_sigint_handler
    restores,        \* how many times the call restored old_sigact
    caught,          \* lr_sigint_handler ran while the call's guard was in place
    engine_calls,    \* one record per call of lr_download
    obs,             \* per request: what the call saw and did at its file
    entry_err,       \* per request: its err when the call started
    single           \* the running or last call of lr_download_package

vars == <<sigint, lr_interrupt, targets, pc, handle, failfast, elem,
          downloadtargets, old_sigact, ret, err, entry_sigint, installed,
          restores, caught, engine_calls, obs, entry_err, single>>

LR_YUMREPO == "LR_YUMREPO"

\* The handles of the batch runs: lr_download_packages reads repotype and
\* interruptible only.
Handles == [repotype : {LR_YUMREPO, "LR_OTHERREPO"}, interruptible : BOOLEAN,
            destdir : {NULLSTR}, user_cb : {"ucb"}, user_data : {"udata"}]

\* The handle of a caller that has made no call yet.
NoHandle == [repotype |-> LR_YUMREPO, interruptible |-> FALSE,
             destdir |-> NULLSTR, user_cb |-> "ucb", user_data |-> "udata"]

\* No call of lr_download_package is running or has returned.
NoSingle == [active |-> FALSE, again |-> FALSE, prev_handed |-> FALSE,
             dest |-> NULLSTR,
             args |-> [relative_url |-> <<>>, dest |-> NULLSTR,
                       checksum_type |-> LR_CHECKSUM_UNKNOWN, checksum |-> NULL,
                       expectedsize |-> 0, base_url |-> NULL, resume |-> FALSE]]

AppDispositions == {"SIG_DFL", "app_handler"}

\* What is recorded of a request the loop has not reached.
NoObs == [resolved |-> FALSE, is_dir |-> FALSE, access_ok |-> FALSE,
          opened |-> FALSE, open_ok |-> FALSE, compared |-> FALSE,
          cmp_ret |-> FALSE, matches |-> FALSE, skipped |-> FALSE]

\* g_set_error on the caller's GError, which is clear at entry (line 97).
SetError(code) == code

NoCall == /\ elem = 0
          /\ downloadtargets = <<>>
          /\ old_sigact = "unset"
          /\ ret = TRUE
          /\ err = NULL
          /\ installed = FALSE
          /\ restores = 0
          /\ caught = FALSE
          /\ engine_calls = <<>>

Init ==
    /\ sigint \in AppDispositions
    /\ lr_interrupt = FALSE
    /\ targets = <<>>
    /\ pc = "idle"
    /\ handle = NoHandle
    /\ failfast = FALSE
    /\ entry_sigint = sigint
    /\ obs = <<>>
    /\ entry_err = <<>>
    /\ single = NoSingle
    /\ NoCall

\* ----------------------------------------------------------------- caller
\* The caller builds a list of new requests with lr_packagetarget_new and
\* g_slist_append.
NewTargets ==
    /\ pc = "idle"
    /\ \E n \in 0..MaxTargets, first \in 1..Len(Catalogue) :
        /\ (n = 0) => (first = 1)
        /\ targets' = [k \in 1..n |->
                           Catalogue[((first + k - 2) % Len(Catalogue)) + 1]]
    /\ pc' = "idle"
    /\ handle' = NoHandle
    /\ failfast' = FALSE
    /\ entry_sigint' = sigint
    /\ obs' = <<>>
    /\ entry_err' = <<>>
    /\ single' = NoSingle
    /\ elem' = 0 /\ downloadtargets' = <<>> /\ old_sigact' = "unset"
    /\ ret' = TRUE /\ err' = NULL /\ installed' = FALSE /\ restores' = 0
    /\ caught' = FALSE /\ engine_calls' = <<>>
    /\ UNCHANGED <<sigint, lr_interrupt>>

\* The caller is done with the call that has returned and turns to another.
CallerDone ==
    /\ pc = "single_returned" \/ (pc = "returned" /\ ~single.active)
    /\ pc' = "idle"
    /\ targets' = <<>> /\ handle' = NoHandle /\ failfast' = FALSE
    /\ entry_sigint' = sigint /\ obs' = <<>> /\ entry_err' = <<>>
    /\ single' = NoSingle
    /\ elem' = 0 /\ downloadtargets' = <<>> /\ old_sigact' = "unset"
    /\ ret' = TRUE /\ err' = NULL /\ installed' = FALSE /\ restores' = 0
    /\ caught' = FALSE /\ engine_calls' = <<>>
    /\ UNCHANGED <<sigint, lr_interrupt>>

\* The process has ended (abort() or the default action of SIGINT): nothing
\* of its state is left.
Ended(how) ==
    /\ pc' = how
    /\ sigint' = "SIG_DFL" /\ lr_interrupt' = FALSE /\ targets' = <<>>
    /\ handle' = NoHandle
    /\ failfast' = FALSE /\ entry_sigint' = "SIG_DFL" /\ obs' = <<>>
    /\ entry_err' = <<>> /\ single' = NoSingle
    /\ elem' = 0 /\ downloadtargets' = <<>> /\ old_sigact' = "unset"
    /\ ret' = TRUE /\ err' = NULL /\ installed' = FALSE /\ restores' = 0
    /\ caught' = FALSE /\ engine_calls' = <<>>

\* ---------------------------------------------------- lr_download_packages
\* SIGINT ignored while the call runs.
InstalledHandler_Ignore == "SIG_IGN"

\* Line 115: the handler the call installs for SIGINT.
InstalledHandler == "lr_sigint_handler"

\* The handler installed ahead of the checks and left in place by a return.
ReturnEarly_HandlerLeft(r, e) ==
    /\ pc' = "returned" /\ ret' = r /\ err' = e
    /\ installed' = FALSE /\ old_sigact' = "unset"
    /\ sigint' = InstalledHandler

\* A return before the handler is installed, with the given result.
ReturnEarly(r, e) ==
    /\ pc' = "returned" /\ ret' = r /\ err' = e
    /\ installed' = FALSE /\ old_sigact' = "unset"
    /\ UNCHANGED sigint

\* The repo type looked at ahead of the empty list.
EntryOutcome_RepotypeFirst(ts, h, ndebug, sigaction_ok) ==
    IF h.repotype # LR_YUMREPO THEN (IF ndebug THEN "badfuncarg" ELSE "abort")
    ELSE IF ts = <<>> THEN "empty"
    ELSE IF h.interruptible /\ ~sigaction_ok THEN "sigaction"
    ELSE "go"

\* Lines 99-123: what the entry of the call comes to, for the list ts and
\* the handle h: the empty list is looked at first, then the repo type
\* (assert(0), or LRE_BADFUNCARG with NDEBUG), then sigaction.
EntryOutcome(ts, h, ndebug, sigaction_ok) ==
    IF ts = <<>> THEN "empty"
    ELSE IF h.repotype # LR_YUMREPO THEN (IF ndebug THEN "badfuncarg" ELSE "abort")
    ELSE IF h.interruptible /\ ~sigaction_ok THEN "sigaction"
    ELSE "go"

\* Lines 91-123: entry, with the list ts. An empty list returns TRUE at once;
\* a handle of another repo type stops at assert(0), or with NDEBUG returns
\* LRE_BADFUNCARG; an interruptible handle installs lr_sigint_handler and
\* saves the disposition it replaces, or returns LRE_SIGACTION. s says which
\* call of lr_download_package, if any, made this call.
Enter(ts, h, flags, ndebug, sigaction_ok, s) ==
    /\ pc \in {"idle", "single_returned"}
    /\ LET outcome == EntryOutcome(ts, h, ndebug, sigaction_ok)
       IN  IF outcome = "abort"
           THEN Ended("aborted")
           ELSE /\ handle' = h
                /\ failfast' = ("LR_PACKAGEDOWNLOAD_FAILFAST" \in flags)
                /\ entry_sigint' = sigint
                /\ targets' = ts
                /\ single' = s
                /\ obs' = [k \in 1..Len(ts) |-> NoObs]
                /\ entry_err' = [k \in 1..Len(ts) |-> ts[k].err]
                /\ elem' = 0 /\ downloadtargets' = <<>> /\ restores' = 0
                /\ caught' = FALSE /\ engine_calls' = <<>>
                /\ UNCHANGED lr_interrupt
                /\ IF outcome = "empty"
                   THEN ReturnEarly(TRUE, NULL)
                   ELSE IF outcome = "badfuncarg"
                   THEN ReturnEarly(FALSE, SetError("LRE_BADFUNCARG"))
                   ELSE IF outcome = "sigaction"
                   THEN ReturnEarly(FALSE, SetError("LRE_SIGACTION"))
                   ELSE /\ pc' = "mirrorlist" /\ ret' = TRUE /\ err' = NULL
                        /\ installed' = h.interruptible
                        /\ old_sigact' = IF h.interruptible THEN sigint ELSE "unset"
                        /\ sigint' = IF h.interruptible THEN InstalledHandler
                                     ELSE sigint

\* The build (NDEBUG or not) and the answer of sigaction matter only where
\* the code asks for them.
InputsAsked(ts, h, ndebug, sigaction_ok) ==
    /\ (h.repotype = LR_YUMREPO \/ ts = <<>>) => ndebug
    /\ (h.interruptible /\ h.repotype = LR_YUMREPO /\ ts # <<>>) \/ sigaction_ok

EnterAny ==
    \E h \in Handles, flags \in SUBSET {"LR_PACKAGEDOWNLOAD_FAILFAST"},
       ndebug \in BOOLEAN, sigaction_ok \in BOOLEAN :
        /\ InputsAsked(targets, h, ndebug, sigaction_ok)
        /\ Enter(targets, h, flags, ndebug, sigaction_ok, NoSingle)

\* A call with the list the caller has at hand.
Call == pc = "idle" /\ EnterAny

\* The caller keeps the list of the call that has just returned for a
\* further call: the requests keep the local_path and err that call left
\* on them.
ReuseTargets ==
    /\ pc = "returned" /\ ~single.active
    /\ targets # <<>> /\ Len(targets) <= MaxReuse
    /\ pc' = "idle"
    /\ handle' = NoHandle /\ failfast' = FALSE
    /\ entry_sigint' = sigint /\ obs' = <<>> /\ entry_err' = <<>>
    /\ elem' = 0 /\ downloadtargets' = <<>> /\ old_sigact' = "unset"
    /\ ret' = TRUE /\ err' = NULL /\ installed' = FALSE /\ restores' = 0
    /\ caught' = FALSE /\ engine_calls' = <<>>
    /\ UNCHANGED <<sigint, lr_interrupt, targets, single>>

\* The "goto cleanup" left out: the loop runs after a failed preparation.
PrepareMirrorlist_GoesOn ==
    /\ pc = "mirrorlist"
    /\ \E ok \in BOOLEAN :
        /\ ret' = ok
        /\ err' = IF ok THEN NULL ELSE SetError("LRE_MIRRORLIST")
        /\ pc' = "resolve"
        /\ elem' = 1
    /\ UNCHANGED <<sigint, lr_interrupt, targets, handle, failfast,
                   downloadtargets, old_sigact, entry_sigint, installed,
                   restores, caught, engine_calls, obs, entry_err, single>>

\* "return FALSE" in place of "goto cleanup" when the mirrorlist fails.
PrepareMirrorlist_ReturnsAtOnce ==
    /\ pc = "mirrorlist"
    /\ \E ok \in BOOLEAN :
        /\ ret' = ok
        /\ err' = IF ok THEN NULL ELSE SetError("LRE_MIRRORLIST")
        /\ pc' = IF ok THEN "resolve" ELSE "returned"
        /\ elem' = IF ok THEN 1 ELSE 0
    /\ UNCHANGED <<sigint, lr_interrupt, targets, handle, failfast,
                   downloadtargets, old_sigact, entry_sigint, installed,
                   restores, caught, engine_calls, obs, entry_err, single>>

\* Lines 125-128: lr_handle_prepare_internal_mirrorlist succeeds, or fails
\* with its error and the call goes to cleanup.
PrepareMirrorlist ==
    /\ pc = "mirrorlist"
    /\ \E ok \in BOOLEAN :
        /\ ret' = ok
        /\ err' = IF ok THEN NULL ELSE SetError("LRE_MIRRORLIST")
        /\ pc' = IF ok THEN "resolve" ELSE "cleanup"
        /\ elem' = IF ok THEN 1 ELSE 0
    /\ UNCHANGED <<sigint, lr_interrupt, targets, handle, failfast,
                   downloadtargets, old_sigact, entry_sigint, installed,
                   restores, caught, engine_calls, obs, entry_err, single>>

\* The skip decision taken ahead of the assignment of local_path, which a
\* skipped request then never gets.
Resolve_PathAfterSkip(is_dir, access_ok, open_ok, cmp_ret, matches) ==
    LET packagetarget == [targets[elem] EXCEPT
                              !.local_path = LocalPath(targets[elem], is_dir)]
        wanted == SkipCheckWanted(packagetarget, access_ok)
        skip   == AlreadyDownloaded(packagetarget, access_ok, open_ok, cmp_ret, matches)
    IN  /\ targets' = [targets EXCEPT ![elem] =
                          IF skip THEN [targets[elem] EXCEPT !.err = ALREADY_DOWNLOADED]
                          ELSE packagetarget]
        /\ downloadtargets' = IF skip THEN downloadtargets
                              ELSE AddTarget(downloadtargets,
                                             DownloadTargetFor(packagetarget, elem))
        /\ obs' = [obs EXCEPT ![elem] =
                      [resolved |-> TRUE, is_dir |-> is_dir, access_ok |-> access_ok,
                       opened |-> wanted, open_ok |-> wanted /\ open_ok,
                       compared |-> wanted /\ open_ok,
                       cmp_ret |-> wanted /\ open_ok /\ cmp_ret,
                       matches |-> wanted /\ open_ok /\ cmp_ret /\ matches,
                       skipped |-> skip]]

\* Lines 131-201: one round of the "Prepare targets" loop, for what the
\* file system and lr_checksum_fd_cmp answer.
Resolve(is_dir, access_ok, open_ok, cmp_ret, matches) ==
    LET packagetarget == [targets[elem] EXCEPT
                              !.local_path = LocalPath(targets[elem], is_dir)]
        wanted == SkipCheckWanted(packagetarget, access_ok)
        skip   == AlreadyDownloaded(packagetarget, access_ok, open_ok, cmp_ret, matches)
    IN  /\ targets' = [targets EXCEPT ![elem] =
                          IF skip THEN [packagetarget EXCEPT !.err = ALREADY_DOWNLOADED]
                          ELSE packagetarget]
        /\ downloadtargets' = IF skip THEN downloadtargets
                              ELSE AddTarget(downloadtargets,
                                             DownloadTargetFor(packagetarget, elem))
        /\ obs' = [obs EXCEPT ![elem] =
                      [resolved |-> TRUE, is_dir |-> is_dir, access_ok |-> access_ok,
                       opened |-> wanted, open_ok |-> wanted /\ open_ok,
                       compared |-> wanted /\ open_ok,
                       cmp_ret |-> wanted /\ open_ok /\ cmp_ret,
                       matches |-> wanted /\ open_ok /\ cmp_ret /\ matches,
                       skipped |-> skip]]

ResolveOne ==
    /\ pc = "resolve"
    /\ elem \in 1..Len(targets)
    /\ \E is_dir, access_ok, open_ok, cmp_ret, matches \in BOOLEAN :
        \* g_file_test is asked only for a dest, and "" is no directory
        /\ is_dir => targets[elem].dest \notin {NULLSTR, <<>>}
        \* open() is reached only past line 161, the verifier only with a
        \* descriptor, its answer is read only when it returned TRUE
        /\ open_ok => SkipCheckWanted(targets[elem], access_ok)
        /\ cmp_ret => open_ok
        /\ matches => cmp_ret
        /\ Resolve(is_dir, access_ok, open_ok, cmp_ret, matches)
    /\ elem' = elem + 1
    /\ pc' = IF elem = Len(targets) THEN "download" ELSE "resolve"
    /\ UNCHANGED <<sigint, lr_interrupt, handle, failfast, old_sigact,
                   ret, err, entry_sigint, installed, restores, caught,
                   engine_calls, entry_err, single>>

\* The messages the transfer engine leaves on a failed target.
EngineMsgs == {"E1", "E2"}

\* lr_download: the engine leaves the list as it is, puts an error on each
\* target that failed, and reports failure when a target failed or when it
\* could not run at all.
lr_download(dts, outcome, ran) ==
    [list |-> [k \in 1..Len(dts) |-> [dts[k] EXCEPT !.err = outcome[k]]],
     ret  |-> ran /\ \A k \in 1..Len(dts) : outcome[k] = NULL]

\* Line 204: the one call of lr_download, with the list built by the loop
\* and the caller's fail-fast flag.
Download ==
    /\ pc = "download"
    /\ \E outcome \in [1..Len(downloadtargets) -> {NULL} \cup EngineMsgs],
          ran \in BOOLEAN :
        LET r == lr_download(downloadtargets, outcome, ran)
        IN  /\ downloadtargets' = r.list
            /\ ret' = r.ret
            /\ err' = IF r.ret THEN NULL ELSE SetError("LRE_DOWNLOAD")
            /\ engine_calls' = Append(engine_calls,
                                      [targets  |-> downloadtargets,
                                       failfast |-> failfast,
                                       result   |-> r.list,
                                       ret      |-> r.ret])
    /\ pc' = "cleanup"
    /\ UNCHANGED <<sigint, lr_interrupt, targets, handle, failfast,
                   elem, old_sigact, entry_sigint, installed, restores, caught, obs,
                   entry_err, single>>

\* Lines 221-223: the disposition of SIGINT after the cleanup block.
RestoredSigint == IF handle.interruptible THEN old_sigact ELSE sigint

\* The flag consulted only when the call already failed.
Interrupted_OnlyOnFailure == handle.interruptible /\ lr_interrupt /\ ~ret

\* The flag consulted whether or not the handle is interruptible.
Interrupted_AnyHandle == lr_interrupt

\* Lines 221-230: whether the call's result is replaced by LRE_INTERRUPTED.
Interrupted == handle.interruptible /\ lr_interrupt

\* Lines 206-233: the cleanup block and the return.
Cleanup ==
    /\ pc = "cleanup"
    /\ targets' = CopyStatuses(downloadtargets, targets)
    /\ downloadtargets' = <<>>
    /\ sigint' = RestoredSigint
    /\ restores' = IF handle.interruptible THEN restores + 1 ELSE restores
    /\ ret' = IF Interrupted THEN FALSE ELSE ret
    /\ err' = IF Interrupted THEN SetError("LRE_INTERRUPTED") ELSE err
    /\ pc' = "returned"
    /\ UNCHANGED <<lr_interrupt, handle, failfast, elem, old_sigact,
                   entry_sigint, installed, caught, engine_calls, obs, entry_err,
                   single>>

\* --------------------------------------------------------------- signals
\* lr_sigint_handler: records the interrupt and puts the default action
\* back for the next SIGINT.
lr_sigint_handler == [lr_interrupt |-> TRUE, sigint |-> "SIG_DFL"]

\* A SIGINT is delivered to the process: the library's handler runs, or the
\* application's, or the default action ends the process.
SIGINT ==
    /\ pc \notin {"killed", "aborted"}
    /\ IF sigint = "lr_sigint_handler"
       THEN /\ lr_interrupt' = lr_sigint_handler.lr_interrupt
            /\ sigint' = lr_sigint_handler.sigint
            /\ caught' = TRUE
            /\ UNCHANGED <<pc, targets, handle, failfast, elem, downloadtargets,
                           old_sigact, ret, err, entry_sigint, installed,
                           restores, engine_calls, obs, entry_err, single>>
       ELSE IF sigint = "SIG_DFL"
       THEN Ended("killed")
       ELSE UNCHANGED vars

Next ==
    \/ NewTargets
    \/ CallerDone
    \/ Call
    \/ PrepareMirrorlist
    \/ ResolveOne
    \/ Download
    \/ Cleanup
    \/ SIGINT

Spec == Init /\ [][Next]_vars

\* The same, with callers that hand a list of requests to a further call.
NextReuse == Next \/ ReuseTargets

SpecReuse == Init /\ [][NextReuse]_vars

\* ------------------------------------------------ destination resolution
\* The strings of the destination-resolution runs: every string of at most
\* MaxLen characters over a separator and a letter, and the shapes of the
\* documented examples.
Chars == {SEP, "a"}

ShortStrings == UNION {[1..n -> Chars] : n \in 0..MaxLen}

ExampleUrls == {<<"p", "/", "f", ".", "r">>, <<"p", "/", "q", "/", "f", "/">>}

ExampleDests == {<<"/", "t", "/", "r">>, <<"/", "t", "/", "o", ".", "r">>,
                 <<"/", "t", "/", "r", "/">>}

\* One request with any of these strings as relative_url and as dest (or no
\* dest), at the start of the "Prepare targets" loop of a call on a handle
\* that is not interruptible.
InitDest ==
    /\ \E u \in ShortStrings \cup ExampleUrls,
          d \in ShortStrings \cup ExampleDests \cup {NULLSTR} :
           targets = <<lr_packagetarget_new(u, d, "LR_CHECKSUM_SHA256", "c1",
                                            7, "b1", TRUE, "cb1", "ud1")>>
    /\ pc = "resolve"
    /\ elem = 1
    /\ obs = <<NoObs>>
    /\ entry_err = <<NULL>>
    /\ sigint = "SIG_DFL"
    /\ entry_sigint = "SIG_DFL"
    /\ lr_interrupt = FALSE
    /\ handle = NoHandle
    /\ single = NoSingle
    /\ failfast = FALSE
    /\ downloadtargets = <<>>
    /\ old_sigact = "unset"
    /\ ret = TRUE
    /\ err = NULL
    /\ installed = FALSE
    /\ restores = 0
    /\ caught = FALSE
    /\ engine_calls = <<>>

NextDest == ResolveOne

SpecDest == InitDest /\ [][NextDest]_vars

\* ------------------------------------------------- lr_download_package
\* The handles of the single-package runs: handle->destdir is set or not.
HandlesSingle == [repotype : {LR_YUMREPO, "LR_OTHERREPO"}, interruptible : BOOLEAN,
                  destdir : {NULLSTR, <<"h">>}, user_cb : {"ucb"},
                  user_data : {"udata"}]

\* The flat arguments a caller gives lr_download_package: a destination or
\* none, a checksum or none, a known checksum type or not, resume on or off.
SingleArgs == [relative_url : {<<"p", "/", "f">>}, dest : {NULLSTR, <<"d">>},
               checksum_type : {"LR_CHECKSUM_SHA256", LR_CHECKSUM_UNKNOWN},
               checksum : {"c1", NULL}, expectedsize : {7}, base_url : {"b1"},
               resume : BOOLEAN]

\* The fallback left out: the destination is passed on as given.
SingleDest_AsGiven(dest, h) == dest

\* Lines 252-254: "if (!dest) dest = handle->destdir;".
SingleDest(dest, h) == IF dest = NULLSTR THEN h.destdir ELSE dest

\* Lines 258-260: the one request lr_download_package builds.
SingleTarget(a, h) ==
    lr_packagetarget_new(a.relative_url, SingleDest(a.dest, h), a.checksum_type,
                         a.checksum, a.expectedsize, a.base_url, a.resume,
                         h.user_cb, h.user_data)

\* Lines 236-270: lr_download_package up to the position lr_download_packages
\* reaches at its entry. The request is built from the flat arguments and the
\* handle; without memory for it the call returns FALSE with LRE_MEMORY;
\* otherwise lr_download_packages gets the list of that one request with
\* LR_PACKAGEDOWNLOAD_FAILFAST. After a call has returned, the caller makes
\* the same call again, with the same arguments and handle.
lr_download_package(h, a, alloc_ok, ndebug, sigaction_ok) ==
    /\ pc \in {"idle", "single_returned"}
    /\ pc = "single_returned" => (single.args = a /\ handle = h)
    /\ LET again == pc = "single_returned"
           s == [active |-> TRUE, again |-> again,
                 prev_handed |-> again /\ single.prev_handed,
                 dest |-> SingleDest(a.dest, h), args |-> a]
       IN  IF ~alloc_ok
           THEN /\ pc' = "single_returned"
                /\ ret' = FALSE /\ err' = SetError("LRE_MEMORY")
                /\ handle' = h /\ targets' = <<>> /\ obs' = <<>>
                /\ entry_err' = <<>> /\ engine_calls' = <<>>
                /\ single' = [s EXCEPT !.active = FALSE, !.prev_handed = FALSE]
                /\ elem' = 0 /\ downloadtargets' = <<>> /\ restores' = 0
                /\ caught' = FALSE /\ installed' = FALSE /\ old_sigact' = "unset"
                /\ failfast' = FALSE /\ entry_sigint' = sigint
                /\ UNCHANGED <<sigint, lr_interrupt>>
           ELSE Enter(<<SingleTarget(a, h)>>, h, {"LR_PACKAGEDOWNLOAD_FAILFAST"},
                      ndebug, sigaction_ok, s)

\* A first call of lr_download_package.
SingleCall ==
    /\ pc = "idle"
    /\ \E h \in HandlesSingle, a \in SingleArgs, alloc_ok \in BOOLEAN,
          ndebug \in BOOLEAN, sigaction_ok \in BOOLEAN :
        /\ InputsAsked(<<a>>, h, ndebug, sigaction_ok)
        /\ alloc_ok \/ (ndebug /\ sigaction_ok)
        /\ lr_download_package(h, a, alloc_ok, ndebug, sigaction_ok)

\* The call that has just returned, made once more.
SingleCallAgain ==
    /\ pc = "single_returned"
    /\ \E alloc_ok \in BOOLEAN, ndebug \in BOOLEAN, sigaction_ok \in BOOLEAN :
        /\ InputsAsked(<<single.args>>, handle, ndebug, sigaction_ok)
        /\ alloc_ok \/ (ndebug /\ sigaction_ok)
        /\ lr_download_package(handle, single.args, alloc_ok, ndebug, sigaction_ok)

\* Lines 272-274: lr_download_packages has returned into lr_download_package,
\* which frees the request and returns what it was given.
SingleReturn ==
    /\ pc = "returned" /\ single.active
    /\ pc' = "single_returned"
    /\ single' = [single EXCEPT !.active = FALSE,
                                !.prev_handed =
                                    /\ engine_calls # <<>>
                                    /\ engine_calls[1].targets # <<>>]
    /\ targets' = <<>> /\ obs' = <<>> /\ entry_err' = <<>>
    /\ UNCHANGED <<sigint, lr_interrupt, handle, failfast, elem, downloadtargets,
                   old_sigact, ret, err, entry_sigint, installed, restores,
                   caught, engine_calls>>

\* A caller of lr_download_packages whose handle has a destdir or not, with
\* a list of one request.
BatchOfOne ==
    /\ pc = "idle"
    /\ \E c \in DOMAIN Catalogue, h \in HandlesSingle,
          flags \in SUBSET {"LR_PACKAGEDOWNLOAD_FAILFAST"},
          ndebug \in BOOLEAN, sigaction_ok \in BOOLEAN :
        /\ InputsAsked(<<Catalogue[c]>>, h, ndebug, sigaction_ok)
        /\ Enter(<<Catalogue[c]>>, h, flags, ndebug, sigaction_ok, NoSingle)

NextSingle ==
    \/ SingleCall
    \/ SingleCallAgain
    \/ SingleReturn
    \/ CallerDone
    \/ BatchOfOne
    \/ PrepareMirrorlist
    \/ ResolveOne
    \/ Download
    \/ Cleanup
    \/ SIGINT

SpecSingle == Init /\ [][NextSingle]_vars

\* ============================================================ properties
\* The positions of the requests the engine was given, in the order given.
RECURSIVE Backrefs(_)
Backrefs(dts) == IF dts = <<>> THEN <<>>
                 ELSE <<Head(dts).userdata>> \o Backrefs(Tail(dts))

\* Request k was in a list handed to lr_download.
Handed(k) ==
    \E c \in DOMAIN engine_calls :
        \E j \in DOMAIN engine_calls[c].targets :
            engine_calls[c].targets[j].userdata = k

\* The error the engine left on the target of request k, NULL when none.
EngineErr(k) ==
    IF \E c \in DOMAIN engine_calls : \E j \in DOMAIN engine_calls[c].result :
           /\ engine_calls[c].result[j].userdata = k
           /\ engine_calls[c].result[j].err # NULL
    THEN LET c == CHOOSE c \in DOMAIN engine_calls :
                      \E j \in DOMAIN engine_calls[c].result :
                          /\ engine_calls[c].result[j].userdata = k
                          /\ engine_calls[c].result[j].err # NULL
             j == CHOOSE j \in DOMAIN engine_calls[c].result :
                      /\ engine_calls[c].result[j].userdata = k
                      /\ engine_calls[c].result[j].err # NULL
         IN  engine_calls[c].result[j].err
    ELSE NULL

IsSkipped(k)     == targets[k].err = ALREADY_DOWNLOADED /\ ~Handed(k)
IsTransferred(k) == Handed(k) /\ targets[k].err = NULL
IsFailed(k)      == targets[k].err \notin {NULL, ALREADY_DOWNLOADED}

ExactlyOneState(k) ==
    /\ IsSkipped(k) \/ IsTransferred(k) \/ IsFailed(k)
    /\ ~(IsSkipped(k) /\ IsTransferred(k))
    /\ ~(IsSkipped(k) /\ IsFailed(k))
    /\ ~(IsTransferred(k) /\ IsFailed(k))

\* The call got past mirrorlist preparation: the loop over the requests ran.
ReachedResolution == elem > 0

\* The call was turned down at entry (lines 103-109, 118-122).
RejectedAtEntry == err \in {"LRE_BADFUNCARG", "LRE_SIGACTION"}

\* C1 as stated, for the exit paths past the entry checks: whenever
\* lr_download_packages has returned, every request of the list is skipped,
\* transferred or failed, and in one of the three only.
C1_EveryExitPath ==
    (pc = "returned" /\ ~RejectedAtEntry) =>
        \A k \in DOMAIN targets : ExactlyOneState(k)

\* C1 amended: when the call returns after it got past mirrorlist
\* preparation, every request is in exactly one of three states: skipped (not
\* handed to lr_download, err the marker), handed over with no error left on
\* its target by the engine (err is then what it was when the call started,
\* NULL for a request no call has seen), or failed (handed over, err the
\* error the engine left on its target); when the call returns earlier
\* (empty list, wrong repo type, sigaction failure, mirrorlist failure) every
\* request is as it was when the call started and was not handed over.
C1_TerminalStates ==
    pc = "returned" =>
        \A k \in DOMAIN targets :
            IF ReachedResolution
            THEN \/ /\ obs[k].skipped /\ ~Handed(k)
                    /\ targets[k].err = ALREADY_DOWNLOADED
                 \/ /\ ~obs[k].skipped /\ Handed(k) /\ EngineErr(k) = NULL
                    /\ targets[k].err = entry_err[k]
                 \/ /\ ~obs[k].skipped /\ Handed(k) /\ EngineErr(k) # NULL
                    /\ targets[k].err = EngineErr(k)
                    /\ IsFailed(k)
            ELSE /\ targets[k].err = entry_err[k]
                 /\ ~obs[k].resolved
                 /\ ~Handed(k)

C1_Witness ==
    /\ pc = "returned"
    /\ Len(targets) = 2
    /\ \E k \in DOMAIN targets : IsSkipped(k)
    /\ \E k \in DOMAIN targets : IsFailed(k) /\ Handed(k)

\* C2: when a call that installed the handler returns and a SIGINT was caught
\* while its guard was in place, it returns FALSE with LRE_INTERRUPTED as the
\* error, whatever the engine or the mirrorlist preparation had reported.
C2_InterruptWins ==
    (pc = "returned" /\ installed /\ (caught \/ lr_interrupt)) =>
        (ret = FALSE /\ err = "LRE_INTERRUPTED")

C2_Witness ==
    /\ pc = "returned" /\ installed /\ caught
    /\ engine_calls # <<>>
    /\ engine_calls[1].ret = TRUE
    /\ Len(engine_calls[1].targets) = 2
    /\ err = "LRE_INTERRUPTED"

\* C3: a call that installed lr_sigint_handler has, when it returns, restored
\* the saved disposition exactly once: SIGINT is disposed of as at call
\* entry and the library's handler is not left installed; and no call is
\* running whenever the library's handler is installed.
C3_HandlerRestored ==
    /\ (pc = "returned" /\ installed) =>
           /\ restores = 1
           /\ sigint = entry_sigint
           /\ sigint # "lr_sigint_handler"
    /\ (pc \in {"idle", "returned"}) => sigint # "lr_sigint_handler"

C3_Witness ==
    /\ pc = "returned" /\ installed /\ restores = 1
    /\ engine_calls = <<>>
    /\ ReachedResolution = FALSE
    /\ caught
    /\ sigint = "app_handler"

\* The request has a checksum and a known checksum type.
ChecksumConfigured(packagetarget) ==
    packagetarget.checksum # NULL /\ packagetarget.checksum_type # LR_CHECKSUM_UNKNOWN

\* The list built so far, or handed over, holds a target for request k.
HasTarget(k) ==
    IF pc \in {"resolve", "download"}
    THEN \E j \in DOMAIN downloadtargets : downloadtargets[j].userdata = k
    ELSE Handed(k)

\* C4: a request whose file was readable, whose checksum is configured and
\* for which lr_checksum_fd_cmp returned TRUE with a match has the "Already
\* downloaded" marker as err, no download target was made for it and it is
\* not in the list handed to lr_download.
C4_MatchIsSkipped ==
    \A k \in DOMAIN obs :
        (/\ obs[k].resolved /\ obs[k].access_ok /\ ChecksumConfigured(targets[k])
         /\ obs[k].compared /\ obs[k].cmp_ret /\ obs[k].matches)
        => /\ targets[k].err = ALREADY_DOWNLOADED
           /\ \A j \in DOMAIN downloadtargets : downloadtargets[j].userdata # k
           /\ ~Handed(k)

C4_Witness ==
    /\ pc = "returned"
    /\ engine_calls # <<>>
    /\ \E k \in DOMAIN obs :
        /\ obs[k].matches /\ targets[k].resume
        /\ targets[k].err = ALREADY_DOWNLOADED
    /\ \E k \in DOMAIN obs : Handed(k)

\* C6: for a request with no checksum, or with an unknown checksum type, the
\* file is never opened and lr_checksum_fd_cmp is never called, the request
\* is not skipped, and a download target for it is made and handed to
\* lr_download, whether or not the file is there.
C6_NoChecksumNoSkipCheck ==
    \A k \in DOMAIN obs :
        (obs[k].resolved /\ ~ChecksumConfigured(targets[k]))
        => /\ ~obs[k].opened /\ ~obs[k].compared /\ ~obs[k].skipped
           /\ pc \in {"resolve", "download"} => targets[k].err = entry_err[k]
           /\ HasTarget(k)

C6_Witness ==
    /\ pc = "returned"
    /\ \E k, m \in DOMAIN obs :
        /\ targets[k].checksum = NULL /\ obs[k].access_ok /\ Handed(k)
        /\ targets[m].checksum # NULL
        /\ targets[m].checksum_type = LR_CHECKSUM_UNKNOWN
        /\ obs[m].access_ok /\ Handed(m)

\* The download target dt carries the fields of request k unchanged.
CarriesRequest(dt, k) ==
    /\ dt.userdata = k
    /\ dt.resume = targets[k].resume
    /\ dt.path = targets[k].relative_url
    /\ dt.baseurl = targets[k].base_url
    /\ dt.checksum = targets[k].checksum
    /\ dt.checksumtype = targets[k].checksum_type
    /\ dt.expectedsize = targets[k].expectedsize
    /\ dt.progresscb = targets[k].progresscb
    /\ dt.cbdata = targets[k].cbdata
    /\ dt.fn = targets[k].local_path

\* C7: for a request with a configured checksum whose file is missing or
\* unreadable, cannot be opened, cannot be verified or does not match, a
\* download target with the request's resume flag, URL, base URL, checksum,
\* expected size and callback fields is made and is in the list handed to
\* lr_download, and the request has no error until the engine has run.
C7_RedoPassesThrough ==
    \A k \in DOMAIN obs :
        (/\ obs[k].resolved /\ ChecksumConfigured(targets[k])
         /\ (~obs[k].access_ok \/ ~obs[k].open_ok \/ ~obs[k].cmp_ret \/ ~obs[k].matches))
        => /\ pc \in {"resolve", "download"} =>
                  /\ \E j \in DOMAIN downloadtargets :
                         CarriesRequest(downloadtargets[j], k)
                  /\ targets[k].err = entry_err[k]
           /\ pc \in {"cleanup", "returned"} =>
                  \E j \in DOMAIN engine_calls[1].targets :
                      CarriesRequest(engine_calls[1].targets[j], k)

C7_Witness ==
    /\ pc = "returned"
    /\ \E k, m \in DOMAIN obs :
        /\ ChecksumConfigured(targets[k]) /\ targets[k].resume
        /\ obs[k].cmp_ret /\ ~obs[k].matches /\ Handed(k)
        /\ ChecksumConfigured(targets[m]) /\ ~targets[m].resume
        /\ obs[m].access_ok /\ ~obs[m].open_ok /\ Handed(m)

\* The positions of the requests that were not skipped, in list order.
RECURSIVE NotSkipped(_)
NotSkipped(k) ==
    IF k > Len(obs) THEN <<>>
    ELSE (IF obs[k].skipped THEN <<>> ELSE <<k>>) \o NotSkipped(k + 1)

\* C8 as stated, for the lists that are not empty and the calls that passed
\* the entry checks: every call of lr_download_packages that has returned
\* has called lr_download exactly once.
C8_EveryBatch ==
    (pc = "returned" /\ targets # <<>> /\ ~RejectedAtEntry) =>
        Len(engine_calls) = 1

\* C8 amended: a call that got past the entry checks, the installation of
\* the handler and mirrorlist preparation calls lr_download exactly once,
\* after every request was resolved, with the targets of exactly the
\* requests that were not skipped, in the order of the list, and with the
\* caller's fail-fast flag; a call that stopped earlier never calls it.
C8_EngineCalledOnce ==
    /\ Len(engine_calls) <= 1
    /\ engine_calls # <<>> =>
           /\ \A k \in DOMAIN obs : obs[k].resolved
           /\ Backrefs(engine_calls[1].targets) = NotSkipped(1)
           /\ engine_calls[1].failfast = failfast
           /\ \A j \in DOMAIN engine_calls[1].targets :
                  engine_calls[1].targets[j].fn
                      = targets[engine_calls[1].targets[j].userdata].local_path
    /\ pc = "returned" =>
           Len(engine_calls) = (IF ReachedResolution THEN 1 ELSE 0)

C8_Witness ==
    /\ pc = "returned"
    /\ Len(engine_calls) = 1
    /\ failfast
    /\ Backrefs(engine_calls[1].targets) = <<1, 2>>

\* The targets of the list that carry an error.
FailedTargets(dts) == {j \in DOMAIN dts : dts[j].err # NULL}

\* C9: the cleanup block gives each request whose target carries an error
\* exactly that error and leaves every other request, skipped ones included,
\* as it was; and when exactly one target failed without fail-fast, the call
\* returns FALSE.
C9_ErrorsRouted ==
    [][(pc = "cleanup" /\ pc' = "returned") =>
          /\ \A j \in FailedTargets(downloadtargets) :
                 targets'[downloadtargets[j].userdata].err = downloadtargets[j].err
          /\ \A k \in DOMAIN targets :
                 (\A j \in FailedTargets(downloadtargets) :
                      downloadtargets[j].userdata # k)
                 => targets'[k] = targets[k]
          /\ (~failfast /\ Cardinality(FailedTargets(downloadtargets)) = 1)
                 => ret' = FALSE]_vars

C9_Witness ==
    /\ pc = "returned"
    /\ ~failfast /\ ret = FALSE
    /\ Len(engine_calls) = 1
    /\ Len(engine_calls[1].result) = 2
    /\ engine_calls[1].result[1].err = NULL
    /\ engine_calls[1].result[2].err = "E2"
    /\ targets[1].err = NULL
    /\ targets[2].err = "E2"

\* C5 as stated: a call on an interruptible handle returns LRE_INTERRUPTED
\* only if a SIGINT was caught while its own guard was in place.
C5_ReportedOnce ==
    (pc = "returned" /\ installed /\ err = "LRE_INTERRUPTED") => caught

\* What the documentation calls basename(relativeUrl): "." for the empty
\* string, "/" for separators only, else what lies between the last
\* separator that has a character other than a separator after it and the
\* separators at the end.
ExpectedBase(u) ==
    IF u = <<>> THEN <<".">>
    ELSE IF \A i \in DOMAIN u : u[i] = SEP THEN <<SEP>>
    ELSE LET last  == CHOOSE i \in DOMAIN u :
                          u[i] # SEP /\ \A j \in (i + 1)..Len(u) : u[j] = SEP
             first == CHOOSE i \in 1..last :
                          /\ \A j \in i..last : u[j] # SEP
                          /\ i = 1 \/ u[i - 1] = SEP
         IN  [i \in 1..(last - first + 1) |-> u[first + i - 1]]

\* A path with every run of separators written as one separator.
RECURSIVE Squeeze(_)
Squeeze(s) ==
    IF Len(s) < 2 THEN s
    ELSE IF s[1] = SEP /\ s[2] = SEP THEN Squeeze(Tail(s))
    ELSE <<s[1]>> \o Squeeze(Tail(s))

\* C10: the local path of a resolved request is a function of its dest, its
\* relative_url and whether dest is a directory: with no dest it is the
\* basename of relative_url; with a dest that is a directory it names
\* dest/basename, and is dest, "/" and the basename written one after the
\* other when dest does not end in a separator; with any other dest it is
\* dest as given.
C10_DestinationResolution ==
    \A k \in DOMAIN obs :
        obs[k].resolved =>
            LET t    == targets[k]
                base == ExpectedBase(t.relative_url)
            IN  IF t.dest = NULLSTR THEN t.local_path = base
                ELSE IF obs[k].is_dir
                THEN /\ Squeeze(t.local_path) = Squeeze(t.dest \o <<SEP>> \o base)
                     /\ (t.dest[Len(t.dest)] # SEP /\ base # <<SEP>>)
                            => t.local_path = t.dest \o <<SEP>> \o base
                ELSE t.local_path = t.dest

C10_Witness ==
    /\ pc = "download"
    /\ obs[1].is_dir
    /\ targets[1].dest = <<"/", "t", "/", "r">>
    /\ targets[1].relative_url = <<"p", "/", "f", ".", "r">>
    /\ targets[1].local_path = <<"/", "t", "/", "r", "/", "f", ".", "r">>

\* The destination the caller gave for request k: the argument of
\* lr_download_package, or the dest of a request of a batch.
HintAbsent(k) ==
    IF single.active THEN single.args.dest = NULLSTR
    ELSE targets[k].dest = NULLSTR

\* C11, as stated: a resolved request with no destination of its own is put
\* under the destdir of the handle when the handle has one, in a batch as in
\* a single-package call, and gets the bare basename only when the handle
\* has none either.
C11_HandleDefault ==
    \A k \in DOMAIN obs :
        (obs[k].resolved /\ HintAbsent(k)) =>
            LET base == ExpectedBase(targets[k].relative_url)
            IN  IF handle.destdir = NULLSTR
                THEN targets[k].local_path = base
                ELSE targets[k].local_path \in
                         {handle.destdir, handle.destdir \o <<SEP>> \o base}

\* C11, amended: the destdir of the handle stands in for a missing
\* destination in a call of lr_download_package only; a request of a batch
\* with no dest gets the basename of its relative_url whether or not the
\* handle has a destdir.
C11_FallbackInSingleOnly ==
    \A k \in DOMAIN obs :
        (obs[k].resolved /\ HintAbsent(k)) =>
            LET base == ExpectedBase(targets[k].relative_url)
            IN  IF single.active /\ handle.destdir # NULLSTR
                THEN /\ targets[k].dest = handle.destdir
                     /\ targets[k].local_path =
                            IF obs[k].is_dir
                            THEN handle.destdir \o <<SEP>> \o base
                            ELSE handle.destdir
                ELSE targets[k].local_path = base

C11_Witness ==
    /\ pc = "returned"
    /\ single.active /\ single.args.dest = NULLSTR
    /\ handle.destdir = <<"h">>
    /\ obs[1].resolved /\ obs[1].is_dir
    /\ targets[1].local_path = <<"h", "/", "f">>

\* C12, as stated: whatever the list, a call with a handle of another repo
\* type returns failure with an error.
C12_EveryList ==
    (pc = "returned" /\ handle.repotype # LR_YUMREPO) =>
        (ret = FALSE /\ err # NULL)

\* A step that is the entry of a call with a list that is not empty.
EntryStep ==
    /\ pc = "idle"
    /\ pc' \in {"returned", "mirrorlist", "aborted"}
    /\ targets # <<>>

\* C12, amended: for a list that is not empty, a call with a handle of
\* another repo type never gets past its entry, and a call that returns from
\* its entry returns FALSE with LRE_BADFUNCARG (repo type) or LRE_SIGACTION
\* (the handler could not be installed, on an interruptible handle), has
\* changed no field of any request, has created no download target, has not
\* called the engine and has left the disposition of SIGINT as it was.
C12_ConfigurationErrors ==
    [][EntryStep =>
          /\ handle'.repotype # LR_YUMREPO =>
                 (pc' = "returned" /\ err' = "LRE_BADFUNCARG")
          /\ pc' = "returned" =>
                 /\ ret' = FALSE
                 /\ err' \in {"LRE_BADFUNCARG", "LRE_SIGACTION"}
                 /\ err' = "LRE_SIGACTION" =>
                        (handle'.interruptible /\ handle'.repotype = LR_YUMREPO)
                 /\ targets' = targets
                 /\ sigint' = sigint
                 /\ ~installed' /\ restores' = 0
                 /\ downloadtargets' = <<>> /\ engine_calls' = <<>>]_vars

C12_Witness ==
    /\ pc = "returned"
    /\ err = "LRE_SIGACTION" /\ ret = FALSE
    /\ Len(targets) = 1
    /\ targets[1].err \in EngineMsgs
    /\ targets[1].local_path # NULLSTR
    /\ sigint = "app_handler"

\* C13: when lr_download_package is called again with the same arguments and
\* the check of the file at the resolved path reports a match with the
\* checksum given, the request of that second call gets the "Already
\* downloaded" marker and the engine is given no target for it, with resume
\* on as with resume off.
C13_SecondCallSkips ==
    (single.active /\ single.again /\ obs # <<>> /\ obs[1].matches) =>
        /\ targets[1].err = ALREADY_DOWNLOADED
        /\ targets[1].resume = single.args.resume
        /\ downloadtargets = <<>>
        /\ \A c \in DOMAIN engine_calls : engine_calls[c].targets = <<>>

C13_Witness ==
    /\ pc = "returned"
    /\ single.active /\ single.again /\ single.prev_handed
    /\ single.args.resume
    /\ obs[1].matches
    /\ engine_calls # <<>> /\ engine_calls[1].targets = <<>>
    /\ ret = TRUE

\* C14: every request the loop has dealt with has its local_path, the
\* skipped ones as well, since the path is stored ahead of the skip decision;
\* so when a call that got as far as the loop returns, every request of the
\* list has the local_path resolved for it, whether it was skipped,
\* transferred or failed.
C14_LocalPathSet ==
    /\ \A k \in DOMAIN obs :
           obs[k].resolved =>
               /\ targets[k].local_path # NULLSTR
               /\ targets[k].local_path = LocalPath(targets[k], obs[k].is_dir)
    /\ (pc = "returned" /\ ReachedResolution) =>
           \A k \in DOMAIN targets :
               /\ obs[k].resolved
               /\ IsSkipped(k) \/ IsTransferred(k) \/ IsFailed(k)

C14_Witness ==
    /\ pc = "returned"
    /\ Len(targets) = 2
    /\ IsSkipped(1) /\ targets[1].local_path = <<"f">>
    /\ IsFailed(2) /\ targets[2].local_path = <<"d", "/", "g">>

\* The positions of a call between the installation of the handler and its
\* removal.
GuardWindow == installed /\ pc \in {"mirrorlist", "resolve", "download", "cleanup"}

\* C15: while the handler of an interruptible call is installed, SIGINT is
\* caught by lr_sigint_handler as long as none has arrived; once one has
\* been caught, the flag lr_interrupt is set and the disposition of SIGINT
\* is the default one, so that the next SIGINT is not caught but ends the
\* process.
C15_FirstCaughtSecondDefault ==
    GuardWindow =>
        IF caught THEN lr_interrupt /\ sigint = "SIG_DFL"
        ELSE sigint = "lr_sigint_handler"

C15_Witness ==
    /\ pc = "download"
    /\ installed /\ caught
    /\ lr_interrupt
    /\ old_sigact = "app_handler"
    /\ sigint = "SIG_DFL"

\* C16: a call with a handle that is not interruptible never touches the
\* disposition of SIGINT (no handler installed, none saved, none put back),
\* never ends with LRE_INTERRUPTED, and returns what the engine returned, or
\* the failure of mirrorlist preparation when the engine was not reached,
\* whether or not lr_interrupt is set.
C16_OptIn ==
    (~handle.interruptible
         /\ pc \in {"mirrorlist", "resolve", "download", "cleanup", "returned"}) =>
        /\ sigint = entry_sigint
        /\ ~installed /\ restores = 0 /\ old_sigact = "unset" /\ ~caught
        /\ err # "LRE_INTERRUPTED"
        /\ (pc = "returned" /\ engine_calls # <<>>) =>
               /\ ret = engine_calls[1].ret
               /\ err = IF engine_calls[1].ret THEN NULL ELSE "LRE_DOWNLOAD"
        /\ (pc = "returned" /\ engine_calls = <<>> /\ targets # <<>>
                /\ handle.repotype = LR_YUMREPO) =>
               (ret = FALSE /\ err = "LRE_MIRRORLIST")

C16_Witness ==
    /\ pc = "returned"
    /\ ~handle.interruptible
    /\ lr_interrupt
    /\ engine_calls # <<>> /\ engine_calls[1].ret
    /\ ret = TRUE /\ err = NULL
    /\ sigint = "app_handler"

\* C17: when a call returns, a request that was handed to the engine and for
\* which the engine reported no error has no err, whatever err it had when
\* the call started.
C17_NoStaleError ==
    pc = "returned" =>
        \A k \in DOMAIN obs :
            (Handed(k) /\ EngineErr(k) = NULL) => targets[k].err = NULL

\* The call is on its way out, or has returned, after the preparation of the
\* mirrorlist failed.
MirrorlistFailed ==
    \/ err = "LRE_MIRRORLIST"
    \/ /\ pc = "returned" /\ targets # <<>> /\ elem = 0
       /\ err = "LRE_INTERRUPTED"

\* A step of a call whose preparation of the mirrorlist fails: its entry, the
\* preparation, and the cleanup that follows it.
MirrorlistFailureStep ==
    \/ pc = "idle" /\ pc' = "mirrorlist"
    \/ pc = "mirrorlist" /\ pc' = "cleanup"
    \/ pc = "cleanup" /\ elem = 0 /\ pc' = "returned"

\* C18: when the preparation of the mirrorlist fails, the call goes straight
\* to its cleanup and returns FALSE, with the error of the preparation or,
\* on an interruptible handle with lr_interrupt set, with LRE_INTERRUPTED;
\* no request has been resolved, no local_path or err has changed, no
\* download target exists, the engine has not been called, and a handler
\* that was installed has been replaced by the disposition found at entry.
C18_MirrorlistFailure ==
    /\ [](MirrorlistFailed =>
             /\ pc \in {"cleanup", "returned"}
             /\ elem = 0
             /\ downloadtargets = <<>> /\ engine_calls = <<>>
             /\ \A k \in DOMAIN targets :
                    ~obs[k].resolved /\ targets[k].err = entry_err[k]
             /\ pc = "returned" =>
                    /\ ret = FALSE
                    /\ err = IF handle.interruptible /\ lr_interrupt
                             THEN "LRE_INTERRUPTED" ELSE "LRE_MIRRORLIST"
                    /\ sigint = entry_sigint
                    /\ restores = IF handle.interruptible THEN 1 ELSE 0)
    /\ [][MirrorlistFailureStep => targets' = targets]_vars

C18_Witness ==
    /\ pc = "returned"
    /\ elem = 0
    /\ handle.interruptible /\ restores = 1
    /\ err = "LRE_INTERRUPTED"
    /\ entry_sigint = "app_handler" /\ sigint = "app_handler"
    /\ targets # <<>>
    /\ targets[1].local_path # NULLSTR /\ targets[1].err = ALREADY_DOWNLOADED

\* C19: a call with an empty list returns TRUE with no error at once,
\* whatever the repo type of the handle: no handler is installed, saved or
\* put back, lr_interrupt is not looked at (the result is TRUE when it is
\* set and the handle is interruptible), the mirrorlist is not prepared and
\* the engine is not called.
C19_EmptyBatch ==
    (pc = "returned" /\ targets = <<>>) =>
        /\ ret = TRUE /\ err = NULL
        /\ ~installed /\ restores = 0 /\ old_sigact = "unset"
        /\ sigint = entry_sigint
        /\ elem = 0
        /\ downloadtargets = <<>> /\ engine_calls = <<>>

C19_Witness ==
    /\ pc = "returned"
    /\ targets = <<>>
    /\ handle.repotype # LR_YUMREPO
    /\ handle.interruptible /\ lr_interrupt
    /\ ret = TRUE /\ err = NULL
====
